---- MODULE Spec2Model ----
(***************************************************************************)
(* Model of pcap-diff's comparison engine (src/pcap_diff/packet_differ.py  *)
(* and src/pcap_diff/models.py): PacketDiffer.compare_captures and the     *)
(* functions it calls, run on two packet lists drawn from bounded sets,    *)
(* and of the command line that configures it (src/pcap_diff/main.py,      *)
(* src/pcap_diff/tui.py).                                                  *)
(*                                                                         *)
(* Conventions.                                                            *)
(*  - Python's None is the integer None == -1; every real field value and  *)
(*    every timestamp is >= 0.                                             *)
(*  - Timestamps and time_window are integers (ticks); the floats of the   *)
(*    code are compared and subtracted exactly as these integers are.      *)
(*  - Capture indices and packet_id are 0-based as in the code; At(s, i)   *)
(*    reads the element the code writes s[i].                              *)
(*  - A dict is a function; the empty dict is EmptyDict.                   *)
(*  - A float quotient a / b is the record [num |-> a, den |-> b].         *)
(*  - packet_1 / packet_2 of a PacketDiff are references: the index of the *)
(*    packet in its capture, or None.                                      *)
(*  - comparison_time (wall clock) is left out.                            *)
(*  - alignment_threshold is counted in tenths (8 is 0.8).                 *)
(***************************************************************************)
EXTENDS Integers, Sequences, FiniteSets, TLC

\* ---------------------------------------------------------------- bounds
MaxPackets == 2
MaxTs == 2
MaxWindow == 2
MaxReruns == 1

None == -1

VARIABLES
    packets1,      \* compare_captures' argument packets1
    packets2,      \* compare_captures' argument packets2
    time_window,   \* self.time_window
    pc,            \* position inside compare_captures
    timestamps1,   \* align_packets' local: sorted (ts, index) of capture 1
    timestamps2,   \* align_packets' local: sorted (ts, index) of capture 2
    pos,           \* number of timestamps1 entries already processed
    used1,         \* align_packets' local set used1
    used2,         \* align_packets' local set used2
    alignments,    \* align_packets' result list
    packet_diffs,  \* compare_captures' local list packet_diffs
    result,        \* the ComparisonResult returned, or None
    call,          \* a direct call of one comparison function: its name,
                   \* its two arguments and, once returned, its value; or None
    alignment_threshold, \* self.alignment_threshold
    metadata1,     \* compare_captures' argument metadata1
    metadata2,     \* compare_captures' argument metadata2
    history,       \* what the caller kept of its earlier comparisons of
                   \* these inputs: configuration, alignment and result
    argv           \* the command line options, or << >> without a command line

vars == << packets1, packets2, time_window, pc, timestamps1, timestamps2,
           pos, used1, used2, alignments, packet_diffs, result, call,
           alignment_threshold, metadata1, metadata2, history, argv >>

\* ------------------------------------------------------------- data model
EmptyDict == [k \in {} |-> None]

At(s, i) == s[i + 1]

Indices(s) == 0 .. (Len(s) - 1)

Abs(x) == IF x < 0 THEN -x ELSE x

UNCHANGED_T == "unchanged"
ADDED == "added"
REMOVED == "removed"
MODIFIED == "modified"

DiffType == << UNCHANGED_T, ADDED, REMOVED, MODIFIED >>

\* PacketDiffer.__init__: self.ignore_fields
ignore_fields ==
    { "frame.time_epoch", "frame.time_delta", "frame.time_relative",
      "frame.number", "ip.checksum", "tcp.checksum", "udp.checksum",
      "icmp.checksum" }

\* PacketLayer(name, fields, sublayers); raw_data is never read by the engine
PacketLayer(name, fields, sublayers) ==
    [name |-> name, fields |-> fields, sublayers |-> sublayers]

\* PacketLayer.get_field(field_name) with default None
get_field(layer, field_name) ==
    IF field_name \in DOMAIN layer.fields THEN layer.fields[field_name] ELSE None

\* dict.get(key) on a plain dict
DictGet(d, key) == IF key \in DOMAIN d THEN d[key] ELSE None

\* d1 updated by the items of d2 (later assignments overwrite)
DictUpdate(d1, d2) ==
    [k \in (DOMAIN d1) \cup (DOMAIN d2) |-> IF k \in DOMAIN d2 THEN d2[k] ELSE d1[k]]

\* f"{prefix}.{key}"
Prefixed(prefix, key) == prefix \o "." \o key

RECURSIVE get_all_fields_flat(_)
RECURSIVE MergeSublayers(_, _, _)
\* the loop of get_all_fields_flat over self.sublayers, from sublayer i on
MergeSublayers(all_fields, sublayers, i) ==
    IF i > Len(sublayers) THEN all_fields
    ELSE LET sublayer == sublayers[i]
             sublayer_fields == get_all_fields_flat(sublayer)
             keys == { Prefixed(sublayer.name, key) : key \in DOMAIN sublayer_fields }
             prefixed == [k \in keys |->
                            sublayer_fields[CHOOSE key \in DOMAIN sublayer_fields :
                                                Prefixed(sublayer.name, key) = k]]
         IN  MergeSublayers(DictUpdate(all_fields, prefixed), sublayers, i + 1)

get_all_fields_flat(layer) == MergeSublayers(layer.fields, layer.sublayers, 1)

\* ------------------------------------------------------ Field Comparator
\* faulty variant of IsIgnoredField: the ignore-set is not consulted
IsIgnoredField_Never(field_name) == FALSE

\* _compare_layer_fields: "if field_name in self.ignore_fields: continue"
IsIgnoredField(field_name) == field_name \in ignore_fields

\* faulty variant of ClassifyValues: without the Removed branch, a field
\* missing from layer 2 falls through to the inequality test
ClassifyValues_NoRemoved(value1, value2) ==
    IF value1 = None /\ value2 # None THEN ADDED
    ELSE IF value1 # value2 THEN MODIFIED
    ELSE UNCHANGED_T

\* _compare_layer_fields: the if / elif chain on (value1, value2)
ClassifyValues(value1, value2) ==
    IF value1 = None /\ value2 # None THEN ADDED
    ELSE IF value1 # None /\ value2 = None THEN REMOVED
    ELSE IF value1 # value2 THEN MODIFIED
    ELSE UNCHANGED_T

_compare_layer_fields(layer1, layer2) ==
    LET all_field_names == (DOMAIN layer1.fields) \cup (DOMAIN layer2.fields)
        classified(field_name) ==
            ClassifyValues(DictGet(layer1.fields, field_name),
                           DictGet(layer2.fields, field_name))
        differing == { field_name \in all_field_names :
                         /\ ~IsIgnoredField(field_name)
                         /\ classified(field_name) # UNCHANGED_T }
    IN  [field_name \in differing |-> classified(field_name)]

\* ------------------------------------------------------ Layer Comparator
\* {layer.name: layer for layer in sublayers}: the last layer of a name wins
LayersByName(sublayers) ==
    LET names == { sublayers[i].name : i \in DOMAIN sublayers }
    IN  [n \in names |->
           sublayers[CHOOSE i \in DOMAIN sublayers :
                        /\ sublayers[i].name = n
                        /\ \A j \in DOMAIN sublayers : sublayers[j].name = n => j <= i]]

\* faulty variant of OneSidedFieldDiffs: ignored fields are left out
OneSidedFieldDiffs_SkipIgnored(layer, diff_type) ==
    [field_name \in (DOMAIN layer.fields) \ ignore_fields |-> diff_type]

\* compare_layers: the field_diffs of one layer present in one packet only
OneSidedFieldDiffs(layer, diff_type) == [field_name \in DOMAIN layer.fields |-> diff_type]

\* compare_layers: the field_diffs computed for one layer name
LayerFieldDiffs(layers1, layers2, layer_name) ==
    IF layer_name \notin DOMAIN layers1
    THEN OneSidedFieldDiffs(layers2[layer_name], ADDED)
    ELSE IF layer_name \notin DOMAIN layers2
    THEN OneSidedFieldDiffs(layers1[layer_name], REMOVED)
    ELSE _compare_layer_fields(layers1[layer_name], layers2[layer_name])

compare_layers(packet1, packet2) ==
    LET layers1 == LayersByName(packet1.sublayers)
        layers2 == LayersByName(packet2.sublayers)
        all_layer_names == (DOMAIN layers1) \cup (DOMAIN layers2)
        kept == { layer_name \in all_layer_names :
                    DOMAIN LayerFieldDiffs(layers1, layers2, layer_name) # {} }
    IN  [layer_name \in kept |-> LayerFieldDiffs(layers1, layers2, layer_name)]

\* ------------------------------------------------------ Similarity Scorer
Ratio(a, b) == [num |-> a, den |-> b]

\* the float literals 1.0 and 0.0
One == Ratio(1, 1)
Zero == Ratio(0, 1)

\* r = 1.0 as floats
IsOne(r) == r.num = r.den

\* {k: v for k, v in fields.items() if k not in self.ignore_fields}
FilterIgnored(fields) == [k \in (DOMAIN fields) \ ignore_fields |-> fields[k]]

\* calculate_similarity: "if value1 == value2" on the two .get() results
FieldsAgree(fields1, fields2, field_name) ==
    DictGet(fields1, field_name) = DictGet(fields2, field_name)

\* faulty variant of FieldsAfterFlatten: all_fields is the layer's own dict,
\* so the sublayers' prefixed fields are written into the layer
FieldsAfterFlatten_Aliased(layer) == get_all_fields_flat(layer)

\* get_all_fields_flat line 45, "all_fields = self.fields.copy()": the
\* updates land on the copy, the layer's own fields after the call
FieldsAfterFlatten(layer) == layer.fields

\* a capture after calculate_similarity has flattened its packet idx
AfterSimilarity(packets, idx) ==
    LET layer == packets[idx + 1]
    IN  [packets EXCEPT ![idx + 1] = [layer EXCEPT !.fields = FieldsAfterFlatten(layer)]]

\* faulty variant of calculate_similarity: the matches are divided by the
\* number of fields of packet 1
calculate_similarity_OverFirst(packet1, packet2) ==
    LET fields1 == FilterIgnored(get_all_fields_flat(packet1))
        fields2 == FilterIgnored(get_all_fields_flat(packet2))
        all_fields == (DOMAIN fields1) \cup (DOMAIN fields2)
        matching_fields ==
            Cardinality({ field_name \in all_fields :
                            FieldsAgree(fields1, fields2, field_name) })
    IN  IF all_fields = {} THEN One
        ELSE Ratio(matching_fields, Cardinality(DOMAIN fields1))

\* faulty variant of calculate_similarity: the keys of the two packets are
\* walked one list after the other, so a shared key is counted twice
calculate_similarity_KeyLists(packet1, packet2) ==
    LET fields1 == FilterIgnored(get_all_fields_flat(packet1))
        fields2 == FilterIgnored(get_all_fields_flat(packet2))
        all_fields == (DOMAIN fields1) \cup (DOMAIN fields2)
        matching_fields ==
            Cardinality({ field_name \in DOMAIN fields1 :
                            FieldsAgree(fields1, fields2, field_name) })
            + Cardinality({ field_name \in DOMAIN fields2 :
                              FieldsAgree(fields1, fields2, field_name) })
    IN  IF all_fields = {} THEN One
        ELSE Ratio(matching_fields, Cardinality(all_fields))

calculate_similarity(packet1, packet2) ==
    LET fields1 == FilterIgnored(get_all_fields_flat(packet1))
        fields2 == FilterIgnored(get_all_fields_flat(packet2))
        all_fields == (DOMAIN fields1) \cup (DOMAIN fields2)
        matching_fields ==
            Cardinality({ field_name \in all_fields :
                            FieldsAgree(fields1, fields2, field_name) })
    IN  IF all_fields = {} THEN One
        ELSE Ratio(matching_fields, Cardinality(all_fields))

\* ------------------------------------------------------ PacketDiff
\* PacketDiff(packet_id, timestamp_1, timestamp_2, diff_type, layer_diffs,
\*            packet_1, packet_2, similarity_score)
PacketDiff(id, t1, t2, diff_type, layer_diffs, p1, p2, score) ==
    [packet_id |-> id, timestamp_1 |-> t1, timestamp_2 |-> t2,
     diff_type |-> diff_type, layer_diffs |-> layer_diffs,
     packet_1 |-> p1, packet_2 |-> p2, similarity_score |-> score]

\* faulty variant of OverallDiffType: every compared pair is reported Modified
OverallDiffType_Modified(layer_diffs) == MODIFIED

\* _compare_packets lines 223-226: "if not layer_diffs"
OverallDiffType(layer_diffs) ==
    IF DOMAIN layer_diffs = {} THEN UNCHANGED_T ELSE MODIFIED

\* _compare_packets(packets1[idx1], packets2[idx2], packet_id)
_compare_packets(idx1, idx2, packet_id) ==
    LET packet1 == At(packets1, idx1)
        packet2 == At(packets2, idx2)
        layer_diffs == compare_layers(packet1, packet2)
        similarity == calculate_similarity(packet1, packet2)
        diff_type == OverallDiffType(layer_diffs)
    IN  PacketDiff(packet_id, get_field(packet1, "timestamp"),
                   get_field(packet2, "timestamp"), diff_type, layer_diffs,
                   idx1, idx2, similarity)

\* ------------------------------------------------------ Packet Aligner
\* the (ts, i) list built by one of align_packets' two extraction loops
ExtractTimestamps(packets) ==
    { << get_field(At(packets, i), "timestamp"), i >> :
        i \in { j \in Indices(packets) : get_field(At(packets, j), "timestamp") # None } }

\* faulty variant of TupleLess: the sort runs in descending order
TupleLess_Descending(a, b) == a[1] > b[1] \/ (a[1] = b[1] /\ a[2] > b[2])

\* Python's tuple order on (ts, i)
TupleLess(a, b) == a[1] < b[1] \/ (a[1] = b[1] /\ a[2] < b[2])

\* faulty variant of Sorted: the sort is forgotten, the list stays in input order
RECURSIVE Sorted_ByIndex(_)
Sorted_ByIndex(S) ==
    IF S = {} THEN << >>
    ELSE LET least == CHOOSE a \in S : \A b \in S \ {a} : a[2] < b[2]
         IN  << least >> \o Sorted_ByIndex(S \ {least})

\* list.sort() of a list of distinct (ts, i) tuples
RECURSIVE Sorted(_)
Sorted(S) ==
    IF S = {} THEN << >>
    ELSE LET least == CHOOSE a \in S : \A b \in S \ {a} : TupleLess(a, b)
         IN  << least >> \o Sorted(S \ {least})

\* float('inf'): above every timestamp difference
Inf == MaxTs + MaxTs + 1

\* faulty variant of WithinWindow: the bound is exclusive
WithinWindow_Strict(time_diff) == time_diff < time_window

\* faulty variant of WithinWindow: the window is scaled by alignment_threshold
WithinWindow_Scaled(time_diff) == time_diff * 10 <= time_window * alignment_threshold

\* faulty variant of WithinWindow: the window is not checked
WithinWindow_Always(time_diff) == TRUE

\* align_packets line 180, first conjunct: time_diff <= self.time_window
WithinWindow(time_diff) == time_diff <= time_window

\* faulty variant of Improves: a later candidate at the same difference replaces the best
Improves_OrEqual(time_diff, best_diff) == time_diff <= best_diff

\* align_packets line 180, second conjunct: time_diff < best_diff
Improves(time_diff, best_diff) == time_diff < best_diff

\* faulty variant of IsUsed: claimed packets are not skipped
IsUsed_Never(idx2, used) == FALSE

\* align_packets line 176: "if idx2 in used2: continue"
IsUsed(idx2, used) == idx2 \in used

\* the inner loop of align_packets from candidate j on; returns best_match
RECURSIVE ScanCandidates(_, _, _, _, _)
ScanCandidates(ts1, used, j, best_match, best_diff) ==
    IF j > Len(timestamps2) THEN best_match
    ELSE LET ts2 == timestamps2[j][1]
             idx2 == timestamps2[j][2]
             time_diff == Abs(ts2 - ts1)
         IN  IF IsUsed(idx2, used)
             THEN ScanCandidates(ts1, used, j + 1, best_match, best_diff)
             ELSE IF WithinWindow(time_diff) /\ Improves(time_diff, best_diff)
             THEN ScanCandidates(ts1, used, j + 1, idx2, time_diff)
             ELSE ScanCandidates(ts1, used, j + 1, best_match, best_diff)

\* best_match after the inner loop for one capture-1 packet
BestMatch(ts1, used) == ScanCandidates(ts1, used, 1, None, Inf)

\* faulty variant of AddedEntries: used2 is not consulted
RECURSIVE AddedEntries_All(_, _)
AddedEntries_All(j, used) ==
    IF j > Len(timestamps2) THEN << >>
    ELSE << << None, timestamps2[j][2] >> >> \o AddedEntries_All(j + 1, used)

\* the final loop of align_packets: (None, idx2) for every idx2 not in used2
RECURSIVE AddedEntries(_, _)
AddedEntries(j, used) ==
    IF j > Len(timestamps2) THEN << >>
    ELSE IF ~IsUsed(timestamps2[j][2], used)
    THEN << << None, timestamps2[j][2] >> >> \o AddedEntries(j + 1, used)
    ELSE AddedEntries(j + 1, used)

\* ------------------------------------------------------ Diff Orchestrator
\* faulty variant of BuildDiff: the diff types of the two one-sided branches
\* are exchanged
BuildDiff_Swapped(i, idx1, idx2) ==
    IF idx1 # None /\ idx2 # None
    THEN _compare_packets(idx1, idx2, i)
    ELSE IF idx1 # None
    THEN PacketDiff(i, get_field(At(packets1, idx1), "timestamp"), None, ADDED,
                    EmptyDict, idx1, None, Zero)
    ELSE PacketDiff(i, None, get_field(At(packets2, idx2), "timestamp"), REMOVED,
                    EmptyDict, None, idx2, Zero)

\* the PacketDiff compare_captures builds for alignment entry i = (idx1, idx2)
BuildDiff(i, idx1, idx2) ==
    IF idx1 # None /\ idx2 # None
    THEN _compare_packets(idx1, idx2, i)
    ELSE IF idx1 # None
    THEN PacketDiff(i, get_field(At(packets1, idx1), "timestamp"), None, REMOVED,
                    EmptyDict, idx1, None, Zero)
    ELSE IF idx2 # None
    THEN PacketDiff(i, None, get_field(At(packets2, idx2), "timestamp"), ADDED,
                    EmptyDict, None, idx2, Zero)
    ELSE PacketDiff(i, None, None, REMOVED, EmptyDict, None, None, Zero)

\* sum(1 for diff in packet_diffs if diff.diff_type == diff_type)
CountDiffs(diffs, diff_type) ==
    Cardinality({ i \in DOMAIN diffs : diffs[i].diff_type = diff_type })

\* faulty variant of ComparisonResult: the totals count the timestamped
\* packets only
ComparisonResult_Timestamped(diffs) ==
    [file1_metadata |-> metadata1,
     file2_metadata |-> metadata2,
     packet_diffs |-> diffs,
     total_packets_1 |-> Len(timestamps1),
     total_packets_2 |-> Len(timestamps2),
     identical_packets |-> CountDiffs(diffs, UNCHANGED_T),
     modified_packets |-> CountDiffs(diffs, MODIFIED),
     added_packets |-> CountDiffs(diffs, ADDED),
     removed_packets |-> CountDiffs(diffs, REMOVED)]

\* ComparisonResult(...) as compare_captures constructs it
ComparisonResult(diffs) ==
    [file1_metadata |-> metadata1,
     file2_metadata |-> metadata2,
     packet_diffs |-> diffs,
     total_packets_1 |-> Len(packets1),
     total_packets_2 |-> Len(packets2),
     identical_packets |-> CountDiffs(diffs, UNCHANGED_T),
     modified_packets |-> CountDiffs(diffs, MODIFIED),
     added_packets |-> CountDiffs(diffs, ADDED),
     removed_packets |-> CountDiffs(diffs, REMOVED)]

\* ComparisonResult.get_diff_counts: counts[packet_diff.diff_type] += 1, from diff k on
RECURSIVE TallyFrom(_, _, _)
TallyFrom(diffs, k, counts) ==
    IF k > Len(diffs) THEN counts
    ELSE TallyFrom(diffs, k + 1,
                   [counts EXCEPT ![diffs[k].diff_type] = counts[diffs[k].diff_type] + 1])

\* ComparisonResult.get_diff_counts
get_diff_counts(res) ==
    TallyFrom(res.packet_diffs, 1,
              [diff_type \in { DiffType[n] : n \in DOMAIN DiffType } |-> 0])

\* sum(diff.similarity_score for diff in packet_diffs), from diff k on
RECURSIVE SumScores(_, _)
SumScores(diffs, k) ==
    IF k > Len(diffs) THEN Zero
    ELSE LET score == diffs[k].similarity_score
             rest == SumScores(diffs, k + 1)
         IN  Ratio(score.num * rest.den + rest.num * score.den, score.den * rest.den)

\* faulty variant of get_similarity_percentage: no guard for an empty result,
\* the mean of no scores is taken
get_similarity_percentage_Unguarded(res) ==
    LET total_score == SumScores(res.packet_diffs, 1)
    IN  Ratio(total_score.num * 100, total_score.den * Len(res.packet_diffs))

\* ComparisonResult.get_similarity_percentage
get_similarity_percentage(res) ==
    IF res.packet_diffs = << >> THEN Ratio(100, 1)
    ELSE LET total_score == SumScores(res.packet_diffs, 1)
         IN  Ratio(total_score.num * 100, total_score.den * Len(res.packet_diffs))

\* ------------------------------------------------------ inputs
Timestamps == 0 .. MaxTs

\* a packet of the ingestion layer with no protocol layers
BarePacket(ts) == PacketLayer("Packet", [timestamp |-> ts], << >>)

BarePackets == { BarePacket(ts) : ts \in Timestamps \cup {None} }

SeqsUpTo(S, n) == UNION { [1 .. m -> S] : m \in 0 .. n }

\* PacketDiffer.__init__'s defaults: alignment_threshold = 0.8, time_window = 1.0
DefaultThreshold == 8
DefaultTimeWindow == 1

\* CaptureMetadata of one capture: the file name and the packet count
CaptureMetadata(filename, packets) ==
    [filename |-> filename, packet_count |-> Len(packets)]

\* the metadata objects handed to compare_captures with the two packet lists
GivenMetadata ==
    /\ metadata1 = CaptureMetadata("capture1.pcap", packets1)
    /\ metadata2 = CaptureMetadata("capture2.pcap", packets2)

\* one comparison by a PacketDiffer with the default alignment_threshold,
\* nothing compared before, no command line
Standalone ==
    /\ alignment_threshold = DefaultThreshold
    /\ GivenMetadata
    /\ history = << >>
    /\ argv = << >>

\* the locals of compare_captures and align_packets before anything has run
FreshLocals ==
    /\ timestamps1 = << >>
    /\ timestamps2 = << >>
    /\ pos = 0
    /\ used1 = {}
    /\ used2 = {}
    /\ alignments = << >>
    /\ packet_diffs = << >>
    /\ result = None

\* the state at entry to compare_captures
Entry ==
    /\ pc = "extract"
    /\ FreshLocals
    /\ call = None

\* protocol layers without sublayers: every dict of FieldNames into Values
LayerNames == {"tcp", "http"}
FieldNames == {"checksum", "tcp.checksum"}
Values == {1, 2}

FieldDicts == UNION { [D -> Values] : D \in SUBSET FieldNames }

Layers == { PacketLayer(n, f, << >>) : n \in LayerNames, f \in FieldDicts }

SublayerLists ==
    {<< >>} \cup { << a >> : a \in Layers } \cup { << a, b >> : a \in Layers, b \in Layers }

\* a packet as the ingestion layer builds it: root "Packet" and its layers
LayeredPackets(stamps) ==
    { PacketLayer("Packet", [timestamp |-> ts], subs) :
        ts \in stamps, subs \in SublayerLists }

Init ==
    /\ packets1 \in SeqsUpTo(BarePackets, MaxPackets)
    /\ packets2 \in SeqsUpTo(BarePackets, MaxPackets)
    /\ time_window \in 0 .. MaxWindow
    /\ Entry
    /\ Standalone

\* one packet per capture, with protocol layers
InitCompare ==
    /\ packets1 \in { << p >> : p \in LayeredPackets({0}) }
    /\ packets2 \in { << q >> : q \in LayeredPackets({0, 1}) }
    /\ time_window = 0
    /\ Entry
    /\ Standalone

\* captures of bare and layered packets, with and without a timestamp
MixedPackets ==
    { BarePacket(None), BarePacket(0), BarePacket(MaxTs),
      PacketLayer("Packet", [timestamp |-> 0],
                  << PacketLayer("http", [checksum |-> 1], << >>) >>),
      PacketLayer("Packet", [timestamp |-> 0],
                  << PacketLayer("http", [checksum |-> 2], << >>) >>) }

InitMixed ==
    /\ packets1 \in SeqsUpTo(MixedPackets, MaxPackets)
    /\ packets2 \in SeqsUpTo(MixedPackets, MaxPackets)
    /\ time_window \in {0, MaxWindow}
    /\ Entry
    /\ Standalone

\* the alignment_threshold values a caller configures, in tenths
Thresholds == {0, DefaultThreshold}

\* the captures a caller compares more than once
RerunPackets ==
    { BarePacket(1),
      PacketLayer("Packet", [timestamp |-> 0],
                  << PacketLayer("http", [checksum |-> 1], << >>) >>),
      PacketLayer("Packet", [timestamp |-> 0],
                  << PacketLayer("http", [checksum |-> 2], << >>) >>) }

\* a caller constructs PacketDiffer(alignment_threshold, time_window) and
\* calls compare_captures for the first time
InitRerun ==
    /\ packets1 \in SeqsUpTo(RerunPackets, MaxPackets)
    /\ packets2 \in SeqsUpTo(RerunPackets, MaxPackets)
    /\ time_window \in {0, MaxWindow}
    /\ alignment_threshold \in Thresholds
    /\ Entry
    /\ GivenMetadata
    /\ history = << >>
    /\ argv = << >>

\* the captures parsed from the two files named on the command line
CliCaptures == SeqsUpTo({ BarePacket(0), BarePacket(1) }, MaxPackets)

\* main() has parsed its options and no PacketDiffer exists yet
InitCli ==
    /\ packets1 \in CliCaptures
    /\ packets2 \in CliCaptures
    /\ argv \in [time_window : 0 .. MaxWindow,
                 alignment_threshold : Thresholds,
                 no_tui : BOOLEAN]
    /\ time_window = None
    /\ alignment_threshold = None
    /\ pc = "main"
    /\ FreshLocals
    /\ call = None
    /\ GivenMetadata
    /\ history = << >>

\* packets whose root may lack the timestamp or hold None for it (a capture
\* without sniff_time), with at most one layer, which may hold a nested layer
RootDicts == { EmptyDict, [timestamp |-> None], [timestamp |-> 0], [timestamp |-> 1] }

InnerLayers ==
    { PacketLayer(n, [checksum |-> v], << >>) : n \in LayerNames, v \in Values }

DeepLayers ==
    { PacketLayer(n, f, subs) :
        n \in LayerNames,
        f \in { EmptyDict, [checksum |-> 1] },
        subs \in {<< >>} \cup { << a >> : a \in InnerLayers } }

DeepPackets ==
    { PacketLayer("Packet", f, subs) :
        f \in RootDicts,
        subs \in {<< >>} \cup { << d >> : d \in DeepLayers } }

\* the packets handed to a direct call of compare_layers or calculate_similarity
CallPackets(deep) == IF deep THEN DeepPackets ELSE LayeredPackets({0})

\* a direct call that has not returned yet
PendingCall(fn, a, b) == [fn |-> fn, args |-> << a, b >>, ret |-> None]

\* a direct call: compare_layers or calculate_similarity on two packets,
\* _compare_layer_fields on two layers
InitPure ==
    /\ packets1 = << >>
    /\ packets2 = << >>
    /\ time_window = 0
    /\ pc = "call"
    /\ FreshLocals
    /\ Standalone
    /\ \/ \E deep \in BOOLEAN :
            \E p \in CallPackets(deep), q \in CallPackets(deep) :
               \E fn \in {"compare_layers", "calculate_similarity"} :
                  call = PendingCall(fn, p, q)
       \/ \E layer1 \in Layers, layer2 \in Layers :
            call = PendingCall("_compare_layer_fields", layer1, layer2)

\* ------------------------------------------------------ steps
\* align_packets lines 147-168: extract, sort, initialise
Extract ==
    /\ pc = "extract"
    /\ timestamps1' = Sorted(ExtractTimestamps(packets1))
    /\ timestamps2' = Sorted(ExtractTimestamps(packets2))
    /\ pc' = "align"
    /\ UNCHANGED << packets1, packets2, time_window, pos, used1, used2,
                    alignments, packet_diffs, result, call,
                    alignment_threshold, metadata1, metadata2, history, argv >>

\* align_packets lines 171-189: one iteration of the outer loop
AlignStep ==
    /\ pc = "align"
    /\ pos < Len(timestamps1)
    /\ LET ts1 == timestamps1[pos + 1][1]
           idx1 == timestamps1[pos + 1][2]
           best_match == BestMatch(ts1, used2)
       IN  /\ alignments' = Append(alignments, << idx1, best_match >>)
           /\ used1' = IF best_match # None THEN used1 \cup {idx1} ELSE used1
           /\ used2' = IF best_match # None THEN used2 \cup {best_match} ELSE used2
    /\ pos' = pos + 1
    /\ UNCHANGED << packets1, packets2, time_window, pc, timestamps1,
                    timestamps2, packet_diffs, result, call,
                    alignment_threshold, metadata1, metadata2, history, argv >>

\* align_packets lines 191-197: the added packets, then return
AddUnmatched ==
    /\ pc = "align"
    /\ pos = Len(timestamps1)
    /\ alignments' = alignments \o AddedEntries(1, used2)
    /\ pc' = "compare"
    /\ UNCHANGED << packets1, packets2, time_window, timestamps1, timestamps2,
                    pos, used1, used2, packet_diffs, result, call,
                    alignment_threshold, metadata1, metadata2, history, argv >>

\* faulty variant of CompareEntry: packet ids are numbered from 1
CompareEntry_From1 ==
    /\ pc = "compare"
    /\ Len(packet_diffs) < Len(alignments)
    /\ LET i == Len(packet_diffs)
           entry == At(alignments, i)
           paired == entry[1] # None /\ entry[2] # None
       IN  /\ packet_diffs' = Append(packet_diffs, BuildDiff(i + 1, entry[1], entry[2]))
           /\ packets1' = IF paired THEN AfterSimilarity(packets1, entry[1]) ELSE packets1
           /\ packets2' = IF paired THEN AfterSimilarity(packets2, entry[2]) ELSE packets2
    /\ UNCHANGED << time_window, pc, timestamps1,
                    timestamps2, pos, used1, used2, alignments, result, call,
                    alignment_threshold, metadata1, metadata2, history, argv >>

\* compare_captures lines 74-107: one iteration of the loop over alignments
CompareEntry ==
    /\ pc = "compare"
    /\ Len(packet_diffs) < Len(alignments)
    /\ LET i == Len(packet_diffs)
           entry == At(alignments, i)
           paired == entry[1] # None /\ entry[2] # None
       IN  /\ packet_diffs' = Append(packet_diffs, BuildDiff(i, entry[1], entry[2]))
           /\ packets1' = IF paired THEN AfterSimilarity(packets1, entry[1]) ELSE packets1
           /\ packets2' = IF paired THEN AfterSimilarity(packets2, entry[2]) ELSE packets2
    /\ UNCHANGED << time_window, pc, timestamps1,
                    timestamps2, pos, used1, used2, alignments, result, call,
                    alignment_threshold, metadata1, metadata2, history, argv >>

\* compare_captures lines 109-128: tally and return the ComparisonResult
Summarize ==
    /\ pc = "compare"
    /\ Len(packet_diffs) = Len(alignments)
    /\ result' = ComparisonResult(packet_diffs)
    /\ pc' = "done"
    /\ UNCHANGED << packets1, packets2, time_window, timestamps1, timestamps2,
                    pos, used1, used2, alignments, packet_diffs, call,
                    alignment_threshold, metadata1, metadata2, history, argv >>

\* the frame of a direct call: the engine's state is not touched
EngineUnchanged ==
    UNCHANGED << packets1, packets2, time_window, timestamps1, timestamps2,
                 pos, used1, used2, alignments, packet_diffs, result,
                 alignment_threshold, metadata1, metadata2, history, argv >>

\* a direct call of _compare_layer_fields(layer1, layer2) returns
CallCompareLayerFields ==
    /\ pc = "call"
    /\ call.fn = "_compare_layer_fields"
    /\ call' = [call EXCEPT !.ret = _compare_layer_fields(call.args[1], call.args[2])]
    /\ pc' = "returned"
    /\ EngineUnchanged

\* a direct call of compare_layers(packet1, packet2) returns
CallCompareLayers ==
    /\ pc = "call"
    /\ call.fn = "compare_layers"
    /\ call' = [call EXCEPT !.ret = compare_layers(call.args[1], call.args[2])]
    /\ pc' = "returned"
    /\ EngineUnchanged

\* a direct call of calculate_similarity(packet1, packet2) returns
CallCalculateSimilarity ==
    /\ pc = "call"
    /\ call.fn = "calculate_similarity"
    /\ call' = [call EXCEPT !.ret = calculate_similarity(call.args[1], call.args[2])]
    /\ pc' = "returned"
    /\ EngineUnchanged

\* a caller keeps the outcome of a finished comparison and compares the same
\* inputs again with a newly constructed PacketDiffer(alignment_threshold,
\* time_window)
CompareAgain ==
    /\ pc = "done"
    /\ Len(history) < MaxReruns
    /\ history' = Append(history, [time_window |-> time_window,
                                   alignment_threshold |-> alignment_threshold,
                                   alignments |-> alignments,
                                   result |-> result])
    /\ time_window' \in {0, MaxWindow}
    /\ alignment_threshold' \in Thresholds
    /\ pc' = "extract"
    /\ timestamps1' = << >>
    /\ timestamps2' = << >>
    /\ pos' = 0
    /\ used1' = {}
    /\ used2' = {}
    /\ alignments' = << >>
    /\ packet_diffs' = << >>
    /\ result' = None
    /\ UNCHANGED << packets1, packets2, call, metadata1, metadata2, argv >>

\* main.py lines 60-74 with run_comparison_only line 93 and tui.py line 80:
\* the PacketDiffer of the chosen run mode is constructed
Main ==
    /\ pc = "main"
    /\ \E tui_importable \in BOOLEAN :
          IF argv.no_tui \/ ~tui_importable
          THEN /\ alignment_threshold' = argv.alignment_threshold
               /\ time_window' = argv.time_window
          ELSE /\ alignment_threshold' = DefaultThreshold
               /\ time_window' = DefaultTimeWindow
    /\ pc' = "extract"
    /\ UNCHANGED << packets1, packets2, timestamps1, timestamps2, pos, used1,
                    used2, alignments, packet_diffs, result, call,
                    metadata1, metadata2, history, argv >>

Next == Extract \/ AlignStep \/ AddUnmatched \/ CompareEntry \/ Summarize

Spec == Init /\ [][Next]_vars

SpecCompare == InitCompare /\ [][Next]_vars

SpecMixed == InitMixed /\ [][Next]_vars

NextPure == CallCompareLayerFields \/ CallCompareLayers \/ CallCalculateSimilarity

SpecPure == InitPure /\ [][NextPure]_vars

\* repeated comparisons of the same inputs
NextRerun ==
    \/ Extract \/ AlignStep \/ AddUnmatched \/ CompareEntry \/ Summarize
    \/ CompareAgain

SpecRerun == InitRerun /\ [][NextRerun]_vars

\* the command line tool: main() and the comparison it starts
NextCli ==
    \/ Main
    \/ Extract \/ AlignStep \/ AddUnmatched \/ CompareEntry \/ Summarize

SpecCli == InitCli /\ [][NextCli]_vars

\* the engine run on one layered packet per capture, and the direct calls
NextScores ==
    \/ Extract \/ AlignStep \/ AddUnmatched \/ CompareEntry \/ Summarize
    \/ CallCompareLayerFields \/ CallCompareLayers \/ CallCalculateSimilarity

SpecScores == (InitCompare \/ InitPure) /\ [][NextScores]_vars

\* ====================================================== properties
\* align_packets has returned
Aligned == pc \in {"compare", "done"}

Ts1(i) == get_field(At(packets1, i), "timestamp")
Ts2(j) == get_field(At(packets2, j), "timestamp")

Timestamped1 == { i \in Indices(packets1) : Ts1(i) # None }
Timestamped2 == { j \in Indices(packets2) : Ts2(j) # None }

\* how many alignment entries carry index i as component c
Occurrences(c, i) == Cardinality({ k \in DOMAIN alignments : alignments[k][c] = i })

\* the capture-2 indices claimed by the entries before entry k
ClaimedBefore(k) == { alignments[m][2] : m \in 1 .. (k - 1) } \ {None}

\* the capture-2 packets still free when entry k was decided and within the window of i
Candidates(k, i) ==
    { j \in Timestamped2 \ ClaimedBefore(k) : Abs(Ts2(j) - Ts1(i)) <= time_window }

\* the entries driven by capture 1
Driven == { k \in DOMAIN alignments : alignments[k][1] # None }

\* C1: the alignment mentions exactly the timestamped packets: each timestamped
\* index of either capture occurs in exactly one entry (as the component of its
\* capture), and no index of a packet without a timestamp occurs at all.
C1_ExactlyTimestamped ==
    Aligned =>
        /\ \A i \in Timestamped1 : Occurrences(1, i) = 1
        /\ \A j \in Timestamped2 : Occurrences(2, j) = 1
        /\ \A k \in DOMAIN alignments :
              /\ alignments[k][1] # None => alignments[k][1] \in Timestamped1
              /\ alignments[k][2] # None => alignments[k][2] \in Timestamped2

C1_Witness ==
    /\ Aligned
    /\ Timestamped1 # {} /\ Timestamped2 # {}
    /\ Indices(packets1) \ Timestamped1 # {}
    /\ Indices(packets2) \ Timestamped2 # {}
    /\ \E k \in DOMAIN alignments : alignments[k][1] # None /\ alignments[k][2] # None

\* C2: the alignment covers every packet of capture 1 and every packet of
\* capture 2 exactly once, whether or not the packet has a timestamp.
C2_CompleteCovering ==
    Aligned =>
        /\ \A i \in Indices(packets1) : Occurrences(1, i) = 1
        /\ \A j \in Indices(packets2) : Occurrences(2, j) = 1

\* C3: every paired entry lies within time_window, and the bound is inclusive:
\* a capture-1 packet is never left unpaired while a free capture-2 packet is
\* at a difference of exactly time_window.
C3_WithinInclusiveWindow ==
    Aligned =>
        \A k \in DOMAIN alignments :
            LET i == alignments[k][1]
                j == alignments[k][2]
            IN  /\ (i # None /\ j # None) => Abs(Ts2(j) - Ts1(i)) <= time_window
                /\ (i # None /\ j = None) =>
                      \A c \in Timestamped2 \ ClaimedBefore(k) :
                          Abs(Ts2(c) - Ts1(i)) # time_window

C3_Witness ==
    /\ Aligned
    /\ time_window > 0
    /\ \E k \in DOMAIN alignments :
          /\ alignments[k][1] # None /\ alignments[k][2] # None
          /\ Abs(Ts2(alignments[k][2]) - Ts1(alignments[k][1])) = time_window

\* (ts, index) order of two capture-1 packets, the order list.sort() gives
Before1(a, b) == Ts1(a) < Ts1(b) \/ (Ts1(a) = Ts1(b) /\ a < b)

\* (ts, index) order of two capture-2 packets
Before2(a, b) == Ts2(a) < Ts2(b) \/ (Ts2(a) = Ts2(b) /\ a < b)

\* C4: capture-1 packets are processed in ascending timestamp order; the
\* partner chosen for each is a capture-2 packet free at that moment and
\* within the window with the minimum absolute difference, the first in
\* capture 2's sorted order among those of equal difference; a capture-2
\* packet once claimed is never given to a later capture-1 packet.
C4_GreedyNearestFirst ==
    Aligned =>
        /\ \A k, m \in Driven : k < m => Before1(alignments[k][1], alignments[m][1])
        /\ \A k \in Driven :
              LET i == alignments[k][1]
                  j == alignments[k][2]
              IN  j # None =>
                    /\ j \in Candidates(k, i)
                    /\ \A c \in Candidates(k, i) \ {j} :
                          \/ Abs(Ts2(j) - Ts1(i)) < Abs(Ts2(c) - Ts1(i))
                          \/ /\ Abs(Ts2(j) - Ts1(i)) = Abs(Ts2(c) - Ts1(i))
                             /\ Before2(j, c)
        /\ \A j \in Timestamped2 :
              Cardinality({ k \in Driven : alignments[k][2] = j }) <= 1

\* a tie was decided: two free candidates at the same, minimal difference on
\* the two sides of the capture-1 packet
C4_Witness ==
    /\ Aligned
    /\ \E k \in Driven :
          LET i == alignments[k][1]
              j == alignments[k][2]
          IN  /\ j # None
              /\ \E c \in Candidates(k, i) \ {j} :
                    /\ Abs(Ts2(j) - Ts1(i)) = Abs(Ts2(c) - Ts1(i))
                    /\ Ts2(j) # Ts2(c)

\* the case of C5: exactly two timestamped capture-1 packets a and b, capture 2
\* is the single timestamped packet 0, both within time_window of it
C5_Case(a, b) ==
    /\ pc = "done"
    /\ Timestamped1 = {a, b} /\ a # b
    /\ Len(packets2) = 1 /\ Timestamped2 = {0}
    /\ Abs(Ts2(0) - Ts1(a)) <= time_window
    /\ Abs(Ts2(0) - Ts1(b)) <= time_window

\* winner is paired with capture-2 packet 0 and loser is reported Removed
C5_Outcome(winner, loser) ==
    /\ \E k \in DOMAIN result.packet_diffs :
          /\ result.packet_diffs[k].packet_1 = winner
          /\ result.packet_diffs[k].packet_2 = 0
          /\ alignments[k] = << winner, 0 >>
    /\ \E k \in DOMAIN result.packet_diffs :
          /\ result.packet_diffs[k].packet_1 = loser
          /\ result.packet_diffs[k].packet_2 = None
          /\ result.packet_diffs[k].diff_type = REMOVED

\* C5 as claimed: of two capture-1 packets within the window of the single
\* capture-2 packet, the one with the smaller absolute difference is paired
\* and the other is Removed.
C5_CloserWins ==
    \A a, b \in Indices(packets1) :
        (C5_Case(a, b) /\ Abs(Ts2(0) - Ts1(a)) < Abs(Ts2(0) - Ts1(b)))
            => C5_Outcome(a, b)

\* C5 amended: of two capture-1 packets within the window of the single
\* capture-2 packet, the one that comes first in capture 1's (timestamp,
\* index) order is paired, whichever is closer, and the other is Removed.
C5_EarlierWins ==
    \A a, b \in Indices(packets1) :
        (C5_Case(a, b) /\ Before1(a, b)) => C5_Outcome(a, b)

\* the earlier packet won although the later one is strictly closer, and the
\* earlier packet is not the first of the input list
C5_Witness ==
    \E a, b \in Indices(packets1) :
        /\ C5_Case(a, b) /\ Before1(a, b) /\ b < a
        /\ Abs(Ts2(0) - Ts1(b)) < Abs(Ts2(0) - Ts1(a))
        /\ C5_Outcome(a, b)

\* C6: every entry with a capture-1 index comes before every capture-2-only
\* entry; the capture-1-driven entries are in ascending capture-1 timestamp
\* order and the capture-2-only entries in ascending capture-2 timestamp order.
C6_OutputOrdering ==
    Aligned =>
        \A k, m \in DOMAIN alignments :
            /\ (k \in Driven /\ m \notin Driven) => k < m
            /\ (k \in Driven /\ m \in Driven /\ k < m) =>
                  Ts1(alignments[k][1]) <= Ts1(alignments[m][1])
            /\ (k \notin Driven /\ m \notin Driven /\ k < m) =>
                  Ts2(alignments[k][2]) <= Ts2(alignments[m][2])

\* a capture-1-driven entry precedes two capture-2-only entries, which stand
\* in the opposite order of their input positions
C6_Witness ==
    /\ Aligned
    /\ Driven # {}
    /\ \E k, m \in DOMAIN alignments :
          /\ k \notin Driven /\ m \notin Driven /\ k < m
          /\ alignments[k][2] > alignments[m][2]
          /\ Ts2(alignments[k][2]) < Ts2(alignments[m][2])

\* C7: a timestamped capture-1 packet is emitted as (index1, None) exactly
\* when, at its turn, no free capture-2 packet is within time_window of it;
\* one packet per side further apart than time_window gives two entries,
\* Removed then Added.
C7_RemovedIffNoCandidate ==
    /\ Aligned =>
          \A k \in Driven :
              (alignments[k][2] = None) <=> (Candidates(k, alignments[k][1]) = {})
    /\ ( /\ pc = "done"
         /\ Len(packets1) = 1 /\ Len(packets2) = 1
         /\ Timestamped1 = {0} /\ Timestamped2 = {0}
         /\ Abs(Ts2(0) - Ts1(0)) > time_window )
       => /\ alignments = << << 0, None >>, << None, 0 >> >>
          /\ Len(result.packet_diffs) = 2
          /\ result.packet_diffs[1].diff_type = REMOVED
          /\ result.packet_diffs[1].packet_1 = 0
          /\ result.packet_diffs[2].diff_type = ADDED
          /\ result.packet_diffs[2].packet_2 = 0

\* a capture-1 packet was removed although a capture-2 packet within its
\* window exists: that packet had been claimed by an earlier capture-1 packet
C7_Witness ==
    /\ pc = "done"
    /\ \E k \in Driven :
          /\ alignments[k][2] = None
          /\ \E j \in Timestamped2 :
                /\ Abs(Ts2(j) - Ts1(alignments[k][1])) <= time_window
                /\ j \in ClaimedBefore(k)
          /\ result.packet_diffs[k].diff_type = REMOVED

\* a layer tree with the fields named in the ignore-set taken out of every layer
RECURSIVE WithoutIgnored(_)
WithoutIgnored(layer) ==
    [name |-> layer.name,
     fields |-> [k \in (DOMAIN layer.fields) \ ignore_fields |-> layer.fields[k]],
     sublayers |-> [i \in DOMAIN layer.sublayers |-> WithoutIgnored(layer.sublayers[i])]]

\* the PacketDiff entries built from an aligned pair
PairedDiffs ==
    { k \in DOMAIN packet_diffs :
        packet_diffs[k].packet_1 # None /\ packet_diffs[k].packet_2 # None }

\* C8: an aligned pair of packets whose field mappings are identical once the
\* fields named in the ignore-set are excluded gets similarity_score 1.0 and
\* diff_type Unchanged.
C8_IdenticalModuloIgnored ==
    \A k \in PairedDiffs :
        LET d == packet_diffs[k]
        IN  WithoutIgnored(At(packets1, d.packet_1)) = WithoutIgnored(At(packets2, d.packet_2))
              => (IsOne(d.similarity_score) /\ d.diff_type = UNCHANGED_T)

\* C9: no field whose name is in the ignore-set appears in the layer_diffs of
\* any compared pair, whether its layer is in both packets or in one only.
C9_IgnoredNeverInLayerDiffs ==
    \A k \in PairedDiffs :
        \A layer_name \in DOMAIN packet_diffs[k].layer_diffs :
            (DOMAIN packet_diffs[k].layer_diffs[layer_name]) \cap ignore_fields = {}

\* C10: every PacketDiff of a ComparisonResult whose diff_type is Unchanged
\* has an empty layer_diffs and a similarity_score of exactly 1.0.
C10_UnchangedIsFullySimilar ==
    pc = "done" =>
        \A k \in DOMAIN result.packet_diffs :
            LET d == result.packet_diffs[k]
            IN  d.diff_type = UNCHANGED_T =>
                  (DOMAIN d.layer_diffs = {} /\ IsOne(d.similarity_score))

\* C11: for every alignment entry with both indices present, the PacketDiff is
\* Modified if and only if its layer_diffs is non-empty and Unchanged
\* otherwise, and it records both timestamps and both packet references.
C11_PairedDiffType ==
    \A k \in DOMAIN packet_diffs :
        LET d == packet_diffs[k]
            i == alignments[k][1]
            j == alignments[k][2]
        IN  (i # None /\ j # None) =>
              /\ d.diff_type \in {MODIFIED, UNCHANGED_T}
              /\ (d.diff_type = MODIFIED) <=> (DOMAIN d.layer_diffs # {})
              /\ d.packet_1 = i /\ d.packet_2 = j
              /\ d.timestamp_1 = Ts1(i) /\ d.timestamp_2 = Ts2(j)
              /\ d.timestamp_1 # None /\ d.timestamp_2 # None

\* the result holds a Modified pair whose protocol layers differ
C11_Witness ==
    /\ pc = "done"
    /\ \E k \in DOMAIN result.packet_diffs :
          /\ result.packet_diffs[k].diff_type = MODIFIED
          /\ result.packet_diffs[k].packet_1 # None
          /\ result.packet_diffs[k].packet_2 # None
          /\ At(packets1, 0).sublayers # At(packets2, 0).sublayers

\* r = 0.0 as floats
IsZero(r) == r.num = 0 /\ r.den # 0

\* C12: every PacketDiff that is Added or Removed has exactly one packet
\* reference (packet_1 only for Removed, packet_2 only for Added), an empty
\* layer_diffs, similarity_score 0.0 and only the timestamp of the side that
\* is present; no PacketDiff has neither packet reference.
C12_OneSidedDiffs ==
    \A k \in DOMAIN packet_diffs :
        LET d == packet_diffs[k]
        IN  /\ d.diff_type = REMOVED =>
                /\ d.packet_1 # None /\ d.packet_2 = None
                /\ d.timestamp_1 = Ts1(d.packet_1) /\ d.timestamp_1 # None
                /\ d.timestamp_2 = None
                /\ DOMAIN d.layer_diffs = {}
                /\ IsZero(d.similarity_score)
            /\ d.diff_type = ADDED =>
                /\ d.packet_2 # None /\ d.packet_1 = None
                /\ d.timestamp_2 = Ts2(d.packet_2) /\ d.timestamp_2 # None
                /\ d.timestamp_1 = None
                /\ DOMAIN d.layer_diffs = {}
                /\ IsZero(d.similarity_score)
            /\ ~(d.packet_1 = None /\ d.packet_2 = None)

\* the result holds a Removed and an Added entry
C12_Witness ==
    /\ pc = "done"
    /\ \E k, m \in DOMAIN result.packet_diffs :
          /\ result.packet_diffs[k].diff_type = REMOVED
          /\ result.packet_diffs[m].diff_type = ADDED

\* a direct call of fn has returned
Returned(fn) == pc = "returned" /\ call.fn = fn

\* the classification the Field Comparator's rule gives field f of two mappings
RuleClass(fields1, fields2, f) ==
    IF f \notin DOMAIN fields1 THEN ADDED
    ELSE IF f \notin DOMAIN fields2 THEN REMOVED
    ELSE IF fields1[f] # fields2[f] THEN MODIFIED
    ELSE UNCHANGED_T

\* C13: _compare_layer_fields returns exactly this mapping: for each field
\* name of the union of both mappings' keys that is not in the ignore-set,
\* Added if only in mapping 2, Removed if only in mapping 1, Modified if in
\* both with unequal values, no entry if in both with equal values; no other
\* keys appear.
C13_FieldComparatorRule ==
    Returned("_compare_layer_fields") =>
        LET fields1 == call.args[1].fields
            fields2 == call.args[2].fields
            keys == { f \in ((DOMAIN fields1) \cup (DOMAIN fields2)) \ ignore_fields :
                        RuleClass(fields1, fields2, f) # UNCHANGED_T }
        IN  /\ DOMAIN call.ret = keys
            /\ \A f \in keys : call.ret[f] = RuleClass(fields1, fields2, f)

\* an ignored field differs and another field is present on one side only
C13_Witness ==
    /\ Returned("_compare_layer_fields")
    /\ \E f \in ignore_fields :
          /\ f \in DOMAIN call.args[1].fields /\ f \in DOMAIN call.args[2].fields
          /\ call.args[1].fields[f] # call.args[2].fields[f]
    /\ \E f \in DOMAIN call.ret : call.ret[f] = REMOVED

\* the names of a packet's immediate sublayers
SublayerNames(packet) == { packet.sublayers[i].name : i \in DOMAIN packet.sublayers }

\* the immediate sublayer of that name (the last one, should several have it)
SublayerNamed(packet, n) ==
    LET at == { i \in DOMAIN packet.sublayers : packet.sublayers[i].name = n }
    IN  packet.sublayers[CHOOSE i \in at : \A j \in at : j <= i]

\* what C14 says layer name n maps to
C14_FieldDiffs(p, q, n) ==
    IF n \notin SublayerNames(p)
    THEN [f \in DOMAIN SublayerNamed(q, n).fields |-> ADDED]
    ELSE IF n \notin SublayerNames(q)
    THEN [f \in DOMAIN SublayerNamed(p, n).fields |-> REMOVED]
    ELSE _compare_layer_fields(SublayerNamed(p, n), SublayerNamed(q, n))

\* C14: compare_layers compares only the immediate sublayers of the two root
\* packets, keyed by layer name: a name only in packet 2 maps every field of
\* that layer to Added, a name only in packet 1 maps every field to Removed, a
\* name in both maps to the Field Comparator's result, and a layer whose
\* mapping is empty is absent; fields of the root packet and of layers nested
\* below the first level never appear.
C14_LayerComparatorRule ==
    Returned("compare_layers") =>
        LET p == call.args[1]
            q == call.args[2]
            names == { n \in SublayerNames(p) \cup SublayerNames(q) :
                         DOMAIN C14_FieldDiffs(p, q, n) # {} }
        IN  /\ DOMAIN call.ret = names
            /\ \A n \in names : call.ret[n] = C14_FieldDiffs(p, q, n)

\* the two packets differ in a root field and in a nested layer only, and
\* layer_diffs is empty
C14_Witness ==
    /\ Returned("compare_layers")
    /\ call.args[1].fields # call.args[2].fields
    /\ Len(call.args[1].sublayers) = 1 /\ Len(call.args[2].sublayers) = 1
    /\ call.args[1].sublayers[1].name = call.args[2].sublayers[1].name
    /\ call.args[1].sublayers[1].fields = call.args[2].sublayers[1].fields
    /\ call.args[1].sublayers[1].sublayers # << >>
    /\ call.args[2].sublayers[1].sublayers # << >>
    /\ call.args[1].sublayers[1].sublayers # call.args[2].sublayers[1].sublayers
    /\ DOMAIN call.ret = {}

\* C15: calculate_similarity returns 1.0 when the union of the two packets'
\* flattened, ignore-filtered field keys is empty, and otherwise the number of
\* keys present in both flattened mappings with exactly equal values divided
\* by the size of the union; a key present in only one mapping never counts
\* as agreeing.
C15_SimilarityFormula ==
    Returned("calculate_similarity") =>
        LET fields1 == FilterIgnored(get_all_fields_flat(call.args[1]))
            fields2 == FilterIgnored(get_all_fields_flat(call.args[2]))
            union == (DOMAIN fields1) \cup (DOMAIN fields2)
            agreeing == { k \in (DOMAIN fields1) \cap (DOMAIN fields2) :
                            fields1[k] = fields2[k] }
        IN  IF union = {} THEN IsOne(call.ret)
            ELSE /\ call.ret.den = Cardinality(union)
                 /\ call.ret.num = Cardinality(agreeing)

\* a score in the closed interval [0.0, 1.0]
InUnitInterval(r) == r.den > 0 /\ 0 <= r.num /\ r.num <= r.den

\* C16: for every pair of packets the value calculate_similarity returns, and
\* the similarity_score of every PacketDiff of a ComparisonResult, lies in
\* the closed interval [0.0, 1.0].
C16_ScoreInUnitInterval ==
    /\ Returned("calculate_similarity") => InUnitInterval(call.ret)
    /\ pc = "done" =>
          \A k \in DOMAIN result.packet_diffs :
              InUnitInterval(result.packet_diffs[k].similarity_score)

\* a result holds a pair whose score is strictly between 0 and 1
C16_Witness ==
    /\ pc = "done"
    /\ \E k \in DOMAIN result.packet_diffs :
          LET score == result.packet_diffs[k].similarity_score
          IN  0 < score.num /\ score.num < score.den

\* C17: comparing a capture against itself (the same packet list on both
\* sides, any time_window >= 0, timestamps possibly repeated) yields zero
\* Added entries, zero Removed entries and diff_type Unchanged for every
\* PacketDiff, with each timestamped packet paired with itself.
C17_SelfComparison ==
    (pc = "done" /\ packets1 = packets2) =>
        /\ \A k \in DOMAIN result.packet_diffs :
              LET d == result.packet_diffs[k]
              IN  /\ d.diff_type = UNCHANGED_T
                  /\ d.packet_1 # None /\ d.packet_1 = d.packet_2
        /\ \A i \in Timestamped1 :
              \E k \in DOMAIN result.packet_diffs :
                  result.packet_diffs[k].packet_1 = i
        /\ result.added_packets = 0 /\ result.removed_packets = 0

\* a capture of two different packets with the same timestamp has been
\* compared against itself
C17_Witness ==
    /\ pc = "done" /\ packets1 = packets2
    /\ Len(packets1) = 2 /\ packets1[1] # packets1[2]
    /\ Ts1(0) # None /\ Ts1(0) = Ts1(1)
    /\ Len(result.packet_diffs) = 2

\* the classification layer_diffs gives field f of layer n
ClassOf(layer_diffs, n, f) ==
    IF n \in DOMAIN layer_diffs /\ f \in DOMAIN layer_diffs[n]
    THEN layer_diffs[n][f] ELSE UNCHANGED_T

\* C18: field classification is symmetric under swapping the sides: a field of
\* a layer is Added by compare_layers(p, q) if and only if the same field of
\* the same layer is Removed by compare_layers(q, p), and it is Modified in
\* one direction if and only if it is Modified in the other.
C18_SwapSymmetry ==
    Returned("compare_layers") =>
        LET forward == call.ret
            backward == compare_layers(call.args[2], call.args[1])
        IN  \A n \in (DOMAIN forward) \cup (DOMAIN backward) :
                \A f \in FieldNames :
                    /\ ClassOf(forward, n, f) = ADDED
                          <=> ClassOf(backward, n, f) = REMOVED
                    /\ ClassOf(forward, n, f) = MODIFIED
                          <=> ClassOf(backward, n, f) = MODIFIED

\* one call classifies a field of one layer Added and a field of another
\* layer Modified
C18_Witness ==
    /\ Returned("compare_layers")
    /\ \E n1, n2 \in DOMAIN call.ret :
          /\ \E f \in DOMAIN call.ret[n1] : call.ret[n1][f] = ADDED
          /\ \E f \in DOMAIN call.ret[n2] : call.ret[n2][f] = MODIFIED

\* the timestamped capture-2 packets no alignment entry pairs with a
\* capture-1 packet
Unmatched2 ==
    { j \in Timestamped2 :
        ~\E k \in DOMAIN alignments : alignments[k][1] # None /\ alignments[k][2] = j }

\* C19: compare_captures builds exactly one PacketDiff per alignment entry, in
\* alignment order, with packet_id equal to its position starting at 0; the
\* number of PacketDiff entries equals the number of alignment entries, which
\* equals the number of timestamped capture-1 packets plus the number of
\* unmatched timestamped capture-2 packets.
C19_OneDiffPerEntry ==
    pc = "done" =>
        /\ Len(result.packet_diffs) = Len(alignments)
        /\ \A k \in DOMAIN result.packet_diffs :
              /\ result.packet_diffs[k].packet_id = k - 1
              /\ result.packet_diffs[k].packet_1 = alignments[k][1]
              /\ result.packet_diffs[k].packet_2 = alignments[k][2]
        /\ Len(alignments) = Cardinality(Timestamped1) + Cardinality(Unmatched2)

\* a result of three entries: a pair, a removed and an added packet
C19_Witness ==
    /\ pc = "done"
    /\ Len(result.packet_diffs) = 3
    /\ \E k \in DOMAIN alignments : alignments[k][1] # None /\ alignments[k][2] # None
    /\ \E k \in DOMAIN alignments : alignments[k][2] = None
    /\ \E k \in DOMAIN alignments : alignments[k][1] = None

\* how many entries of the result have that diff type
EntriesOfType(diff_type) ==
    Cardinality({ k \in DOMAIN result.packet_diffs :
                    result.packet_diffs[k].diff_type = diff_type })

\* C20: in every ComparisonResult returned by compare_captures the counters
\* identical_packets, modified_packets, added_packets and removed_packets
\* equal the number of PacketDiff entries of diff_type Unchanged, Modified,
\* Added and Removed (agreeing with get_diff_counts), their sum equals
\* len(packet_diffs), and total_packets_1 and total_packets_2 equal the
\* lengths of the input lists.
C20_CountersAgree ==
    pc = "done" =>
        /\ result.identical_packets = EntriesOfType(UNCHANGED_T)
        /\ result.modified_packets = EntriesOfType(MODIFIED)
        /\ result.added_packets = EntriesOfType(ADDED)
        /\ result.removed_packets = EntriesOfType(REMOVED)
        /\ get_diff_counts(result)[UNCHANGED_T] = result.identical_packets
        /\ get_diff_counts(result)[MODIFIED] = result.modified_packets
        /\ get_diff_counts(result)[ADDED] = result.added_packets
        /\ get_diff_counts(result)[REMOVED] = result.removed_packets
        /\ result.identical_packets + result.modified_packets
             + result.added_packets + result.removed_packets
               = Len(result.packet_diffs)
        /\ result.total_packets_1 = Len(packets1)
        /\ result.total_packets_2 = Len(packets2)

\* a result with a Modified, an Added and a Removed entry
C20_Witness ==
    /\ pc = "done"
    /\ result.modified_packets = 1
    /\ result.added_packets = 1
    /\ result.removed_packets = 1

\* the result's entries are all of that type, one per timestamped packet of
\* the capture on side c
OnlyEntriesOf(diff_type, c, stamped) ==
    /\ \A k \in DOMAIN result.packet_diffs :
          result.packet_diffs[k].diff_type = diff_type
    /\ \A i \in stamped :
          Cardinality({ k \in DOMAIN result.packet_diffs :
              IF c = 1 THEN result.packet_diffs[k].packet_1 = i
                       ELSE result.packet_diffs[k].packet_2 = i }) = 1
    /\ Len(result.packet_diffs) = Cardinality(stamped)

\* C21: compare_captures succeeds on empty inputs: two empty packet lists give
\* a result with zero PacketDiff entries, every category count zero and an
\* overall similarity of 100%; an empty list on exactly one side gives only
\* Added entries (capture 1 empty) or only Removed entries (capture 2 empty),
\* one per timestamped packet of the other side.
C21_EmptyInputs ==
    pc = "done" =>
        /\ (packets1 = << >> /\ packets2 = << >>) =>
              /\ result.packet_diffs = << >>
              /\ result.identical_packets = 0 /\ result.modified_packets = 0
              /\ result.added_packets = 0 /\ result.removed_packets = 0
              /\ LET percentage == get_similarity_percentage(result)
                 IN  percentage.den # 0 /\ percentage.num = 100 * percentage.den
        /\ (packets1 = << >> /\ packets2 # << >>) =>
              OnlyEntriesOf(ADDED, 2, Timestamped2)
        /\ (packets1 # << >> /\ packets2 = << >>) =>
              OnlyEntriesOf(REMOVED, 1, Timestamped1)

\* capture 1 is empty and capture 2 holds a packet with and a packet without
\* a timestamp: the result is one Added entry
C21_Witness ==
    /\ pc = "done"
    /\ packets1 = << >> /\ Len(packets2) = 2
    /\ Cardinality(Timestamped2) = 1
    /\ Len(result.packet_diffs) = 1
    /\ result.packet_diffs[1].diff_type = ADDED

KeepsInputsAndConfiguration ==
    pc \in {"extract", "align", "compare"} =>
        /\ packets1' = packets1 /\ packets2' = packets2
        /\ metadata1' = metadata1 /\ metadata2' = metadata2
        /\ time_window' = time_window
        /\ alignment_threshold' = alignment_threshold
        /\ pc' = "done" =>
              /\ result'.file1_metadata = metadata1
              /\ result'.file2_metadata = metadata2
              /\ \A k \in DOMAIN history :
                    ( /\ history[k].time_window = time_window
                      /\ history[k].alignment_threshold = alignment_threshold )
                        => history[k].result = result'

C24_SimilaritySymmetric ==
    Returned("calculate_similarity") =>
        LET backward == calculate_similarity(call.args[2], call.args[1])
        IN  call.ret.num * backward.den = backward.num * call.ret.den

\* packet 2 has a field packet 1 lacks, and the two agree on another field
C24_Witness ==
    /\ Returned("calculate_similarity")
    /\ LET fields1 == get_all_fields_flat(call.args[1])
           fields2 == get_all_fields_flat(call.args[2])
       IN  /\ (DOMAIN fields1) \ ignore_fields # (DOMAIN fields2) \ ignore_fields
           /\ Cardinality(DOMAIN fields1) < Cardinality(DOMAIN fields2)
    /\ 0 < call.ret.num /\ call.ret.num < call.ret.den

\* C25: the time window given on the command line with --time-window is the
\* time_window the aligner uses for the comparison, in both run modes
\* (interactive and --no-tui); likewise the PacketDiffer that performs the
\* comparison is constructed from the command-line values rather than from
\* defaults.
C25_CommandLineConfigures ==
    pc \in {"extract", "align", "compare", "done"} =>
        /\ time_window = argv.time_window
        /\ alignment_threshold = argv.alignment_threshold

\* C26: the final alignment is maximal with respect to the window: the output
\* of align_packets never holds a capture-1 packet reported as (i, None) and
\* a capture-2 packet reported as (None, j) whose timestamps differ by at
\* most time_window.
C26_MaximalAlignment ==
    Aligned =>
        \A k, m \in DOMAIN alignments :
            (alignments[k][1] # None /\ alignments[k][2] = None
               /\ alignments[m][1] = None /\ alignments[m][2] # None)
            => Abs(Ts1(alignments[k][1]) - Ts2(alignments[m][2])) > time_window

\* with a positive window, the alignment holds a pair, a removed and an
\* added packet
C26_Witness ==
    /\ Aligned
    /\ time_window > 0
    /\ \E k, m, n \in DOMAIN alignments :
          /\ alignments[k][1] # None /\ alignments[k][2] = None
          /\ alignments[m][1] = None /\ alignments[m][2] # None
          /\ alignments[n][1] # None /\ alignments[n][2] # None

\* the packets that differ from packet only in the fields of one immediate
\* sublayer that is followed by a sublayer of the same name
EarlierChanged(packet) ==
    { [packet EXCEPT !.sublayers[i].fields = f] :
        i \in { i \in DOMAIN packet.sublayers :
                  \E j \in DOMAIN packet.sublayers :
                      j > i /\ packet.sublayers[j].name = packet.sublayers[i].name },
        f \in FieldDicts }

\* C27: when a packet has several immediate sublayers with the same name,
\* compare_layers and calculate_similarity both take into account only the
\* last sublayer of that name in on-wire order: changing the fields of an
\* earlier same-named sublayer changes neither layer_diffs nor the similarity
\* score.
C27_LastSublayerOnly ==
    /\ Returned("compare_layers") =>
          /\ \A p \in EarlierChanged(call.args[1]) :
                compare_layers(p, call.args[2]) = call.ret
          /\ \A q \in EarlierChanged(call.args[2]) :
                compare_layers(call.args[1], q) = call.ret
    /\ Returned("calculate_similarity") =>
          /\ \A p \in EarlierChanged(call.args[1]) :
                calculate_similarity(p, call.args[2]) = call.ret
          /\ \A q \in EarlierChanged(call.args[2]) :
                calculate_similarity(call.args[1], q) = call.ret

====
